---------------------------- MODULE Spec2Model ----------------------------
(***************************************************************************)
(* cadastre-pg (js): the cluster master of runImport, its workers'         *)
(* message handler, the transform (prepareData) and the PostGIS sink       *)
(* (generateSql, pushGeojsonToPostgis), with the store's constraints.      *)
(***************************************************************************)
EXTENDS Integers, Sequences, FiniteSets, TLC

(* ------------------------------ bounds -------------------------------- *)

\* Largest number of archives found under the data path.
MaxFiles == 2

\* Largest host CPU count (os.cpus().length).
MaxCPU == 2

\* Largest value of the --threads option (0 stands for "not given").
MaxThreads == 2

\* Longest string given to a coercion.
MaxLen == 4

\* Largest overlap area between a sheet and a department.
MaxArea == 2

(* ------------------------------ values -------------------------------- *)

\* JavaScript values, tagged by type.  A string is the sequence of its
\* characters.
Undefined == [t |-> "undefined"]

Null == [t |-> "null"]

Num(n) == [t |-> "number", v |-> n]

NaN == [t |-> "NaN"]

\* A number with a fractional part: v its integer part, frac the digits
\* after the point, without trailing zeros.
Dec(n, frac) == [t |-> "number", v |-> n, frac |-> frac]

Str(chars) == [t |-> "string", v |-> chars]

\* A GeoJSON geometry; type "" stands for a geometry object without a type.
Geom(type, coordinates) == [t |-> "geometry", type |-> type, c |-> coordinates]

\* files[0] of an empty list: no file.
FileUndefined == 0

Pids == 1..MaxCPU

Archives == 1..MaxFiles

RECURSIVE Count(_, _)
Count(s, x) ==
  IF s = <<>> THEN 0
  ELSE (IF Head(s) = x THEN 1 ELSE 0) + Count(Tail(s), x)

\* obj[key] of a JavaScript object: undefined for a missing key.
Get(obj, key) == IF key \in DOMAIN obj THEN obj[key] ELSE Undefined

\* JavaScript falsiness (!v) of a value.
Falsy(v) ==
  \/ v.t \in {"undefined", "null", "NaN"}
  \/ v.t = "number" /\ v.v = 0 /\ ("frac" \notin DOMAIN v \/ v.frac = <<>>)
  \/ v.t = "string" /\ v.v = <<>>
  \/ v.t = "geometry" /\ FALSE

\* String(v) inside a template literal.
ToChars(v) ==
  CASE v.t = "string" -> v.v
    [] v.t = "undefined" -> <<"u", "n", "d", "e", "f", "i", "n", "e", "d">>
    [] v.t = "null" -> <<"n", "u", "l", "l">>
    [] OTHER -> <<"?">>

(* ------------------------------ config -------------------------------- *)

NoKey == ""

\* The bati preset: COMMUNE_id then BATIMENT_id.  Of each table the columns
\* that its constraints name are kept, width the n of a varchar(n) pgtype
\* (0 for another type); pk and uq are the column sets of pgCONSTRAINT, fk
\* the columns of pgFkCONSTRAINT and ref the table they reference.
BatiConfig ==
  << [ kind |-> "COMMUNE_id", table |-> "edi_commune",
       insertGid |-> FALSE, hashGeom |-> FALSE,
       fields |-> << [db |-> "millesime", json |-> NoKey, const |-> NoKey,
                      functions |-> <<"addMillesime">>, width |-> 0],
                     [db |-> "commune_id", json |-> "IDU_id", const |-> NoKey,
                      functions |-> <<"addDep">>, width |-> 6] >>,
       pk |-> {"millesime", "commune_id"}, uq |-> {},
       fk |-> {}, ref |-> NoKey ],
     [ kind |-> "BATIMENT_id", table |-> "edi_batiment",
       insertGid |-> TRUE, hashGeom |-> TRUE,
       fields |-> << [db |-> "millesime", json |-> NoKey, const |-> NoKey,
                      functions |-> <<"addMillesime">>, width |-> 0],
                     [db |-> "object_id", json |-> "_id", const |-> NoKey,
                      functions |-> <<"addDep">>, width |-> 30],
                     [db |-> "commune_id", json |-> NoKey, const |-> "commune_id",
                      functions |-> <<"addDep">>, width |-> 6] >>,
       pk |-> {"gid"}, uq |-> {"millesime", "geomhash"},
       fk |-> {"commune_id", "millesime"}, ref |-> "edi_commune" ] >>

\* The bati preset with a coercion the functions table does not hold in the
\* functions of object_id.
TrimConfig == [BatiConfig EXCEPT ![2].fields[2].functions = <<"trim", "addDep">>]

\* A config that declares the communes only: BATIMENT_id is then a kind of
\* the input that the config does not hold.
CommuneConfig == <<BatiConfig[1]>>

ConfigChoices == {BatiConfig, TrimConfig, CommuneConfig}

Tables == {"edi_commune", "edi_batiment"}

(* ------------------------------ the store ------------------------------ *)

\* The store: db.tables the tables that exist, db.rows[t] the rows of table
\* t (each a function from its columns), db.fks the foreign keys in place,
\* db.serial[t] the next value of t's gid sequence.
EmptyDb ==
  [tables |-> {}, rows |-> [t \in Tables |-> {}], fks |-> {},
   serial |-> [t \in Tables |-> 1]]

\* The effect of one statement of the DDL.
ExecStatement(db, st) ==
  CASE st.op = "DROP_SCHEMA" -> EmptyDb
    [] st.op = "CREATE_SCHEMA" -> db
    [] st.op = "DROP_TABLE" ->
         \* CASCADE: the foreign keys that reference the table go with it.
         [db EXCEPT !.tables = @ \ {st.table},
                    !.rows = [@ EXCEPT ![st.table] = {}],
                    !.fks = {k \in @ : k.table # st.table /\ k.ref # st.table},
                    !.serial = [@ EXCEPT ![st.table] = 1]]
    [] st.op = "CREATE_TABLE" -> [db EXCEPT !.tables = @ \cup {st.table}]
    [] st.op = "CREATE_INDEX" -> db
    [] st.op = "DROP_FK" -> [db EXCEPT !.fks = {k \in @ : k.table # st.table}]
    [] st.op = "ADD_FK" ->
         [db EXCEPT !.fks = @ \cup {[table |-> st.table, ref |-> st.ref]}]

RECURSIVE ExecSql(_, _)
ExecSql(db, sql) ==
  IF sql = <<>> THEN db ELSE ExecSql(ExecStatement(db, Head(sql)), Tail(sql))

\* generateSql: the schema statements, one block per table in config order
\* and, after all of them, the foreign-key statements of every table.
RECURSIVE TableBlocks(_, _)
TableBlocks(config, dropTable) ==
  IF config = <<>> THEN <<>>
  ELSE LET c == Head(config)
           st(op) == [op |-> op, table |-> c.table, ref |-> NoKey]
       IN  (IF dropTable THEN <<st("DROP_TABLE")>> ELSE <<>>)
           \o <<st("CREATE_TABLE"), st("CREATE_INDEX")>>
           \o TableBlocks(Tail(config), dropTable)

RECURSIVE FkBlocks(_)
FkBlocks(config) ==
  IF config = <<>> THEN <<>>
  ELSE LET c == Head(config)
       IN  (IF c.fk # {}
            THEN << [op |-> "DROP_FK", table |-> c.table, ref |-> c.ref],
                    [op |-> "ADD_FK", table |-> c.table, ref |-> c.ref] >>
            ELSE <<>>)
           \o FkBlocks(Tail(config))

\* A DDL that creates the tables of the whole bati preset whatever the config.
generateSqlOfPreset(config, dropSchema, dropTable) ==
  << [op |-> "CREATE_SCHEMA", table |-> NoKey, ref |-> NoKey] >>
  \o TableBlocks(BatiConfig, dropTable)
  \o FkBlocks(BatiConfig)

generateSql(config, dropSchema, dropTable) ==
  (IF dropSchema THEN << [op |-> "DROP_SCHEMA", table |-> NoKey, ref |-> NoKey] >>
   ELSE <<>>)
  \o << [op |-> "CREATE_SCHEMA", table |-> NoKey, ref |-> NoKey] >>
  \o TableBlocks(config, dropTable)
  \o FkBlocks(config)

(* ---------------------------- the transform --------------------------- *)

IsDigit(c) == c \in {"0", "1", "2", "3", "4", "5", "6", "7", "8", "9"}

DigitValue(c) ==
  CASE c = "0" -> 0 [] c = "1" -> 1 [] c = "2" -> 2 [] c = "3" -> 3 [] c = "4" -> 4
    [] c = "5" -> 5 [] c = "6" -> 6 [] c = "7" -> 7 [] c = "8" -> 8 [] c = "9" -> 9

\* The longest prefix of chars made of digits.
RECURSIVE DigitPrefix(_)
DigitPrefix(chars) ==
  IF chars = <<>> THEN <<>>
  ELSE IF ~IsDigit(Head(chars)) THEN <<>>
  ELSE <<Head(chars)>> \o DigitPrefix(Tail(chars))

\* The value of a sequence of digits, read in base ten after acc.
RECURSIVE Decimal(_, _)
Decimal(digits, acc) ==
  IF digits = <<>> THEN acc
  ELSE Decimal(Tail(digits), 10 * acc + DigitValue(Head(digits)))

RECURSIVE SkipSpaces(_)
SkipSpaces(chars) ==
  IF chars = <<>> THEN chars
  ELSE IF Head(chars) = " " THEN SkipSpaces(Tail(chars))
  ELSE chars

\* parseInt(val): the value as a string, leading white space skipped, an
\* optional sign, then the longest run of digits; NaN when there is none.
\* (The strings of the model hold no "x", so no hexadecimal prefix.)
parseInt(val) ==
  LET s == SkipSpaces(ToChars(val))
      signed == s # <<>> /\ Head(s) \in {"-", "+"}
      body == IF signed THEN Tail(s) ELSE s
      digits == DigitPrefix(body)
  IN  IF digits = <<>> THEN NaN
      ELSE IF signed /\ Head(s) = "-" THEN Num(0 - Decimal(digits, 0))
      ELSE Num(Decimal(digits, 0))

\* 'toInt': int ? int : null
toInt(val) == LET int == parseInt(val) IN IF Falsy(int) THEN Null ELSE int

\* The first match of /\d+\.?\d+?/ in chars, <<>> when there is none.  At a
\* digit, \d+ takes the run of digits; if a point and a digit follow, the
\* match is the run, the point and that one digit (\d+? is lazy); otherwise
\* \d+ gives its last digit back to \d+?, which needs a run of two digits at
\* least; a single digit matches nothing.
RECURSIVE FirstMatch(_)
FirstMatch(chars) ==
  IF chars = <<>> THEN <<>>
  ELSE IF ~IsDigit(Head(chars)) THEN FirstMatch(Tail(chars))
  ELSE LET run == DigitPrefix(chars)
           rest == SubSeq(chars, Len(run) + 1, Len(chars))
       IN  IF Len(rest) >= 2 /\ rest[1] = "." /\ IsDigit(rest[2])
           THEN run \o <<".", rest[2]>>
           ELSE IF Len(run) >= 2 THEN run
           ELSE FirstMatch(Tail(chars))

\* Digits without their trailing zeros.
RECURSIVE StripZeros(_)
StripZeros(digits) ==
  IF digits = <<>> THEN digits
  ELSE IF digits[Len(digits)] = "0" THEN StripZeros(SubSeq(digits, 1, Len(digits) - 1))
  ELSE digits

\* parseFloat of digits, or of digits, a point and digits.
parseFloat(chars) ==
  LET run == DigitPrefix(chars)
      rest == SubSeq(chars, Len(run) + 1, Len(chars))
      frac == IF rest # <<>> /\ rest[1] = "." THEN DigitPrefix(Tail(rest)) ELSE <<>>
  IN  IF run = <<>> THEN NaN ELSE Dec(Decimal(run, 0), StripZeros(frac))

\* 'toFloat'
toFloat(val) ==
  IF Falsy(val) THEN Null
  ELSE LET n == FirstMatch(val.v)
       IN  IF n = <<>> THEN Null ELSE parseFloat(n)

\* The keys of the functions table.
KnownFunctions == {"addMillesime", "addDep", "toInt", "toFloat", "toDate", "toDateFR"}

\* functions(DEP, MILLESIME)[f](val)
functions(DEP, MILLESIME, f, val) ==
  CASE f = "addMillesime" -> MILLESIME
    [] f = "addDep" -> Str(ToChars(DEP) \o ToChars(val))
    [] f = "toInt" -> toInt(val)
    [] f = "toFloat" -> toFloat(val)

\* confField.functions.reduce(...): the coercions applied left to right.
RECURSIVE ApplyFunctions(_, _, _, _)
ApplyFunctions(fs, DEP, MILLESIME, val) ==
  IF fs = <<>> THEN val
  ELSE ApplyFunctions(Tail(fs), DEP, MILLESIME,
                      functions(DEP, MILLESIME, Head(fs), val))

\* crypto.createHmac('sha256', JSON.stringify(geometry)).digest('hex'): a
\* digest that differs for different geometries.
GeomHash(geometry) == [t |-> "sha256", of |-> geometry]

\* projgeojson(collection, from, to, 7) on one geometry.
Reproject(geometry, from, to) ==
  IF geometry.t # "geometry" THEN geometry
  ELSE [geometry EXCEPT !.c = <<@, from, to>>]

\* data.geojsons[idType]; undefined when the decoder found no such kind.
KindData(data, idType) ==
  LET ids == {i \in 1..Len(data.geojsons) : data.geojsons[i].kind = idType}
  IN  IF ids = {} THEN Undefined ELSE data.geojsons[CHOOSE i \in ids : TRUE]

\* The value of one configured column of one feature.
FieldValue(confField, feature, consts, DEP, MILLESIME) ==
  LET val0 == Get(feature.properties, confField.json)
      val1 == IF confField.const # NoKey THEN consts[confField.const] ELSE val0
  IN  ApplyFunctions(confField.functions, DEP, MILLESIME, val1)

\* One prepared feature: the geometry, the geomhash when the table is
\* configured with hashGeom, and one property per configured field.
PreparedFeature(currentConf, feature, consts, DEP, MILLESIME) ==
  LET confFields == currentConf.fields
      names == {confFields[i].db : i \in 1..Len(confFields)}
               \cup (IF currentConf.hashGeom THEN {"geomhash"} ELSE {})
      last(n) == CHOOSE i \in 1..Len(confFields) :
                   /\ confFields[i].db = n
                   /\ \A j \in 1..Len(confFields) : confFields[j].db = n => j <= i
  IN  [ geometry |-> feature.geometry,
        properties |->
          [n \in names |->
             IF \E i \in 1..Len(confFields) : confFields[i].db = n
             THEN FieldValue(confFields[last(n)], feature, consts, DEP, MILLESIME)
             ELSE GeomHash(feature.geometry)] ]

\* A transform that walks the decoded kinds instead of the config.
RECURSIVE KindsInDataOrder(_, _)
KindsInDataOrder(edigeoConfig, geojsons) ==
  IF geojsons = <<>> THEN <<>>
  ELSE LET ids == {i \in 1..Len(edigeoConfig) : edigeoConfig[i].kind = Head(geojsons).kind}
       IN  (IF ids = {} THEN <<>> ELSE <<edigeoConfig[CHOOSE i \in ids : TRUE]>>)
           \o KindsInDataOrder(edigeoConfig, Tail(geojsons))

PreparedKindsDataOrder(edigeoConfig, data) ==
  KindsInDataOrder(edigeoConfig, data.geojsons)

\* The kinds of the config whose features the decoded data holds, in the
\* order of the config: the keys of the prepared geojsons, in insertion order.
RECURSIVE PreparedKinds(_, _)
PreparedKinds(edigeoConfig, data) ==
  IF edigeoConfig = <<>> THEN <<>>
  ELSE (IF KindData(data, Head(edigeoConfig).kind) = Undefined THEN <<>>
        ELSE <<Head(edigeoConfig)>>)
       \o PreparedKinds(Tail(edigeoConfig), data)

\* prepareData: one entry per table, each with its prepared features,
\* reprojected when the sheet's EPSG code is not the requested one.
prepareData(edigeoConfig, data, consts, DEP, MILLESIME, ESPSGcode) ==
  LET confs == PreparedKinds(edigeoConfig, data)
  IN  [ i \in 1..Len(confs) |->
          LET geojsonData == KindData(data, confs[i].kind)
              fs == geojsonData.features
          IN  [ table |-> confs[i].table,
                features |->
                  [ k \in 1..Len(fs) |->
                      LET pf == PreparedFeature(confs[i], fs[k], consts, DEP, MILLESIME)
                      IN  IF geojsonData.crs # ESPSGcode
                          THEN [pf EXCEPT !.geometry =
                                  Reproject(@, geojsonData.crs, ESPSGcode)]
                          ELSE pf ] ] ]

\* Whether prepareData throws: a coercion the functions table does not hold
\* is called on the first feature of a kind that has one.
PrepareThrows(edigeoConfig, data) ==
  \E i \in 1..Len(edigeoConfig) :
    /\ KindData(data, edigeoConfig[i].kind) # Undefined
    /\ KindData(data, edigeoConfig[i].kind).features # <<>>
    /\ \E j \in 1..Len(edigeoConfig[i].fields) :
         \E k \in 1..Len(edigeoConfig[i].fields[j].functions) :
           edigeoConfig[i].fields[j].functions[k] \notin KnownFunctions

(* ------------------------------ the sink ------------------------------ *)

\* The config of a table: the loop over configs.tableConfig does not stop at
\* the first match, so the last config of that table name is kept.
ConfOfTable(configs, tableName) ==
  LET ids == {i \in 1..Len(configs) : configs[i].table = tableName}
  IN  configs[CHOOSE i \in ids : \A j \in ids : j <= i]

\* getCs: the columns of the insert are the configured fields and geom.
getCs(conf) ==
  [i \in 1..Len(conf.fields) |-> conf.fields[i].db] \o <<"geom">>

\* A sink that keeps every feature.
HasAnyGeometry(feature) == TRUE

HasGeometry(feature) ==
  /\ ~Falsy(feature.geometry)
  /\ feature.geometry.type # ""

\* One element of dataFeatures: the configured fields of the feature (a
\* falsy value becomes null) and the SQL text of its geometry.
PropOf(conf, feature, epsg) ==
  LET confFields == {conf.fields[i].db : i \in 1..Len(conf.fields)}
  IN  [f \in confFields \cup {"geom"} |->
         IF f = "geom"
         THEN [t |-> "ST_GeomFromGeoJSON", of |-> feature.geometry, srid |-> epsg]
         ELSE IF Falsy(Get(feature.properties, f)) THEN Null
              ELSE Get(feature.properties, f)]

\* dataFeatures: the features that have a geometry, in order.
RECURSIVE DataFeatures(_, _, _)
DataFeatures(conf, features, epsg) ==
  IF features = <<>> THEN <<>>
  ELSE (IF HasGeometry(Head(features))
        THEN <<PropOf(conf, Head(features), epsg)>> ELSE <<>>)
       \o DataFeatures(conf, Tail(features), epsg)

\* The columns of a table as generateSql creates it.
TableColumns(conf) ==
  (IF conf.insertGid THEN {"gid"} ELSE {})
  \cup {conf.fields[i].db : i \in 1..Len(conf.fields)}
  \cup (IF conf.hashGeom THEN {"geomhash"} ELSE {})
  \cup {"geom"}

\* The row the store builds from one element of the insert: the columns of
\* the column set take the element's values, gid its sequence's next value,
\* every other column NULL.
RowOf(conf, cs, prop, serial) ==
  [c \in TableColumns(conf) |->
     IF \E i \in 1..Len(cs) : cs[i] = c THEN prop[c]
     ELSE IF c = "gid" THEN Num(serial)
     ELSE Null]

\* Two rows conflict on a key when neither has a NULL in it and they agree
\* on every column of it (NULLs are distinct in a unique index).
SameKey(r1, r2, key) ==
  /\ key # {}
  /\ \A c \in key : r1[c] # Null /\ r2[c] # Null /\ r1[c] = r2[c]

Conflicts(conf, rows, row) ==
  \E r \in rows : SameKey(r, row, conf.pk) \/ SameKey(r, row, conf.uq)

\* A row the store refuses: a NULL in the primary key or in geom, a string
\* longer than its varchar column, or, with the foreign key in place (MATCH
\* FULL), a reference to no row.
Refused(db, conf, row) ==
  \/ \E c \in conf.pk \cup {"geom"} : row[c] = Null
  \/ \E i \in 1..Len(conf.fields) :
       LET v == row[conf.fields[i].db]
       IN  /\ conf.fields[i].width > 0
           /\ v.t = "string"
           /\ Len(v.v) > conf.fields[i].width
  \/ /\ [table |-> conf.table, ref |-> conf.ref] \in db.fks
     /\ ~(\A c \in conf.fk : row[c] = Null)
     /\ ~(\E r \in db.rows[conf.ref] : \A c \in conf.fk : r[c] = row[c])

\* INSERT ... ON CONFLICT DO NOTHING of the elements, one statement: the
\* result is [ok, db]; a refused row fails the statement and leaves the
\* store as it was.
RECURSIVE InsertRows(_, _, _, _)
InsertRows(db, conf, cs, props) ==
  IF props = <<>> THEN [ok |-> TRUE, db |-> db]
  ELSE LET row == RowOf(conf, cs, Head(props), db.serial[conf.table])
           used == IF conf.insertGid
                   THEN [db EXCEPT !.serial[conf.table] = @ + 1] ELSE db
       IN  IF Refused(db, conf, row) THEN [ok |-> FALSE, db |-> db]
           ELSE IF Conflicts(conf, db.rows[conf.table], row)
           THEN InsertRows(used, conf, cs, Tail(props))
           ELSE InsertRows([used EXCEPT !.rows[conf.table] = @ \cup {row}],
                           conf, cs, Tail(props))

\* client.none(insert): [ok, db], the store after the statement; the insert
\* into a table that does not exist fails.
ExecInsert(db, conf, props) ==
  IF conf.table \in db.tables THEN InsertRows(db, conf, getCs(conf), props)
  ELSE [ok |-> FALSE, db |-> db]

(* --------------------------- the archives ----------------------------- *)

Digit(n) ==
  CASE n = 0 -> "0" [] n = 1 -> "1" [] n = 2 -> "2" [] n = 3 -> "3" [] n = 4 -> "4"
    [] n = 5 -> "5" [] n = 6 -> "6" [] n = 7 -> "7" [] n = 8 -> "8" [] OTHER -> "9"

\* Archive a of the tree: whether it can be decompressed and decoded, and
\* the sheet the decoder returns for it, with its kinds in the order of
\* data.geojsons, each with its EPSG code and its features.  The sheets of
\* one commune share its COMMUNE_id feature; every sheet has its own section
\* and building.  SECTION_id is a kind the bati preset does not configure.
\* The defect of an archive is "none", "archive" (it cannot be read),
\* "building" (its building has no geometry), "commune" (the IDU of its
\* commune has five characters, one more than commune_id has room for after
\* the department) or "novec" (it has no VEC member: bufferData.VEC stays
\* empty and the decoder returns an empty feature set, no kind at all),
\* "communegeom" (its commune has no geometry) or "mixed" (it has three
\* buildings: one without geometry, one whose geometry has no type, and one
\* with a geometry).
SheetOf(a, defect) ==
  LET idu == IF defect = "commune" THEN <<"0", "0", "0", "0", "3">>
             ELSE <<"0", "0", "3">>
      commune == [ kind |-> "COMMUNE_id", crs |-> 2154,
                   features |-> << [ properties |-> [IDU_id |-> Str(idu)],
                                     geometry |-> IF defect = "communegeom" THEN Null
                                                  ELSE Geom("Polygon", <<0>>) ] >> ]
      section == [ kind |-> "SECTION_id", crs |-> 2154,
                   features |-> << [ properties |-> [IDU_id |-> Str(<<"A", Digit(a)>>)],
                                     geometry |-> Geom("Polygon", <<a>>) ] >> ]
      building == [ properties |-> [_id |-> Str(<<"B", Digit(a)>>)],
                    geometry |-> IF defect = "building" THEN Null
                                 ELSE Geom("Polygon", <<10 + a>>) ]
      batiment == [ kind |-> "BATIMENT_id", crs |-> 2154,
                    features |->
                      IF defect = "mixed"
                      THEN << [ properties |-> [_id |-> Str(<<"N", Digit(a)>>)],
                                geometry |-> Null ],
                              [ properties |-> [_id |-> Str(<<"T", Digit(a)>>)],
                                geometry |-> Geom("", <<20 + a>>) ],
                              building >>
                      ELSE <<building>> ]
  IN  [ readable |-> defect # "archive",
        basename |-> <<"e", "d", "i", "g", "e", "o", "-", "3", "8", "0", "0", "3",
                       "0", "0", "0", "A", "0", Digit(a)>>,
        geojsons |-> IF defect = "novec" THEN <<>>
                     ELSE IF a % 2 = 1 THEN <<commune, section, batiment>>
                     ELSE <<batiment, section, commune>> ]

Defects == {"archive", "building", "commune"}

\* The trees of a run: every archive without a defect, or one of them with one.
TreeChoices ==
  { [a \in Archives |-> "none"] }
  \cup { [a \in Archives |-> IF a = b THEN defect ELSE "none"] :
           b \in Archives, defect \in Defects }

\* The tree without defect, and the tree whose first archive cannot be read.
TreeChoicesThreads ==
  { [a \in Archives |-> "none"],
    [a \in Archives |-> IF a = 1 THEN "archive" ELSE "none"] }

\* The trees with at most one defective archive, an archive without VEC
\* member, with a commune without geometry or with mixed buildings included.
TreeChoicesInputs ==
  TreeChoices
  \cup { [a \in Archives |-> IF a = b THEN defect ELSE "none"] :
           b \in Archives, defect \in {"novec", "communegeom", "mixed"} }

(* ------------------------ department resolution ----------------------- *)

Throw == [t |-> "throw"]

\* basename.split("-")
RECURSIVE Split(_, _)
Split(chars, acc) ==
  IF chars = <<>> THEN <<acc>>
  ELSE IF Head(chars) = "-" THEN <<acc>> \o Split(Tail(chars), <<>>)
  ELSE Split(Tail(chars), Append(acc, Head(chars)))

\* A department read as a number: the digits the first two characters start
\* with.
FirstTwoDigits(chars) ==
  DigitPrefix(SubSeq(chars, 1, IF Len(chars) < 2 THEN Len(chars) ELSE 2))

\* s.substr(0, 2) and s.slice(0, 2)
FirstTwo(chars) == SubSeq(chars, 1, IF Len(chars) < 2 THEN Len(chars) ELSE 2)

CodeFromFile == Str(<<"f", "r", "o", "m", "F", "i", "l", "e">>)

\* fs.readFileSync(...) of line 130: fs is a name main.js never requires, so
\* the read throws before anything is assigned.
ReadBoundaries == Throw

\* Lines 127-137 on the module state ix of a worker process: nothing when
\* depFeatures is set; otherwise the boundary file is read, and the index
\* created, filled and finished.
BuildIndex(ix) ==
  IF ix.depFeatures # "undefined" THEN ix
  ELSE IF ReadBoundaries = Throw THEN ix
  ELSE [depFeatures |-> "loaded", flatbushIndex |-> "finished"]

\* The dep of one archive: from the file name with --dep fromFile, the first
\* two characters of --dep when one is given, and the spatial lookup
\* otherwise, which reads the boundary file through fs, a name main.js never
\* requires: the read throws.
ResolveDep(userDep, basename) ==
  IF userDep = CodeFromFile
  THEN LET bnSplited == Split(basename, <<>>)
       IN  IF bnSplited[1] # <<"e", "d", "i", "g", "e", "o">>
           THEN Str(<<"0", "0">>)
           ELSE IF Len(bnSplited) < 2 THEN Throw
           ELSE Str(FirstTwo(bnSplited[2]))
  ELSE IF ~Falsy(userDep) THEN Str(FirstTwo(userDep.v))
  ELSE Throw

\* The INSEE codes of the departments of the boundary file.
DepCodes == {1, 38, 73}

\* properties['INSEE_DEP'] of a department.
DepCode(n) == Str(<<Digit(n \div 10), Digit(n % 10)>>)

\* What the index yields for a sheet: the departments whose bounding box
\* meets the sheet's, in the order of the index, each with the area of its
\* intersection with the sheet (0: turfIntersect finds none).
FoundChoices ==
  LET cands == [code : DepCodes, area : 0..MaxArea]
      seqs == UNION { [1..k -> cands] : k \in 0..Cardinality(DepCodes) }
  IN  { f \in seqs : \A i, j \in 1..Len(f) : i # j => f[i].code # f[j].code }

\* depInterscects: the candidates that intersect the sheet, in order.
RECURSIVE Intersecting(_)
Intersecting(found) ==
  IF found = <<>> THEN <<>>
  ELSE (IF Head(found).area > 0 THEN <<Head(found)>> ELSE <<>>)
       \o Intersecting(Tail(found))

\* The loop of lines 198-204: a candidate replaces the selected one only
\* when its area is larger.
RECURSIVE SelectMax(_, _, _)
SelectMax(fs, maxArea, selectedFeature) ==
  IF fs = <<>> THEN selectedFeature
  ELSE IF Head(fs).area > maxArea
  THEN SelectMax(Tail(fs), Head(fs).area, Head(fs))
  ELSE SelectMax(Tail(fs), maxArea, selectedFeature)

\* findDep: the only candidate of the index if there is one; otherwise the
\* only one that intersects, or the one selected among several; undefined
\* when none intersects.
findDep(found) ==
  IF Len(found) = 1 THEN DepCode(found[1].code)
  ELSE LET depInterscects == Intersecting(found)
       IN  IF Len(depInterscects) = 1 THEN DepCode(depInterscects[1].code)
           ELSE IF Len(depInterscects) > 1
           THEN DepCode(SelectMax(depInterscects, 0, Head(depInterscects)).code)
           ELSE Undefined

\* IDU_id of the first feature of a kind; Throw when the kind or its first
\* feature is missing.
FirstIDU(data, kind) ==
  LET k == KindData(data, kind)
  IN  IF k = Undefined THEN Throw
      ELSE IF k.features = <<>> THEN Throw
      ELSE Get(k.features[1].properties, "IDU_id")

(* ------------------------------ the state ----------------------------- *)

VARIABLES
  options,   \* the options of the run: codeDep, dropSchema, dropTable, year, srid
  config,    \* the config of the run
  call,      \* a function applied on its own: its name, its input, its result
  depFeatures,   \* per worker process, the boundary features ("undefined" or "loaded")
  flatbushIndex, \* per worker process, the index ("undefined", "new" or "finished")
  numWorkers, \* the number of workers to fork
  tree,      \* the defect of each archive of the tree
  master,    \* where the master is: "start", "awaitDDL", "serving", "failed", "killed"
  ddl,       \* the DDL statement: "none", "running", "done", "failed"
  files,     \* the archives not yet sent
  workers,   \* the pids of the workers that are online and have not exited
  promise,   \* the promise runImport returns: "pending", "resolved", "rejected"
  pc,        \* where each worker is
  cur,       \* the fileName of the message a worker is handling
  todo,      \* the prepared tables a worker has yet to insert
  inbox,     \* the messages sent to each worker and not yet received
  outbox,    \* the messages each worker sent and the master has not yet handled
  db,        \* the store
  sent,      \* history: how many times each archive was sent to a worker
  failed,    \* history: the archives whose handling threw
  refused,   \* history: the archives with an insert the store failed
  finished,  \* history: the archives whose handler has ended
  insLog,    \* history: per archive, the tables whose insert was executed
  run,       \* the number of the run
  first,     \* history: whether the first run ended without an error, and the rows it left
  decoded    \* history: the archives the decoder was called on in this run

vars == << options, config, call, depFeatures, flatbushIndex, numWorkers, tree, master, ddl, files, workers, promise, pc, cur, todo,
           inbox, outbox, db, sent, failed, refused, finished, insLog, run, first, decoded >>

\* A worker count that is not capped by the CPU count.
NumWorkersUncapped(threads, cpus) == IF threads = 0 THEN cpus ELSE threads

\* numWorkers: the --threads option, the CPU count when it is not given or
\* larger than the CPU count.
NumWorkers(threads, cpus) ==
  LET n == IF threads = 0 THEN cpus ELSE threads
  IN  IF n > cpus THEN cpus ELSE n

FileMsg(file) == [exit |-> FALSE, file |-> file]

ExitMsg == [exit |-> TRUE, file |-> FileUndefined]

FinishMsg(file) == [finish |-> TRUE, file |-> file]

\* The part of a run that one process invocation starts from.
FreshRun(n) ==
  /\ master = "start"
  /\ ddl = "none"
  /\ files = [i \in 1..n |-> i]
  /\ workers = {}
  /\ promise = "pending"
  /\ pc = [w \in Pids |-> "none"]
  /\ cur = [w \in Pids |-> FileUndefined]
  /\ todo = [w \in Pids |-> <<>>]
  /\ inbox = [w \in Pids |-> <<>>]
  /\ outbox = [w \in Pids |-> <<>>]
  /\ sent = [a \in Archives |-> 0]
  /\ failed = {}
  /\ refused = {}
  /\ finished = {}
  /\ insLog = [a \in Archives |-> <<>>]
  /\ decoded = {}
  /\ depFeatures = [w \in Pids |-> "undefined"]
  /\ flatbushIndex = [w \in Pids |-> "undefined"]

\* No function is applied on its own.
NoCall == [f |-> "none"]

\* --dep fromFile, or no --dep.
CodeDepChoices == {CodeFromFile, Undefined}

Init ==
  /\ config = BatiConfig
  /\ call = NoCall
  /\ \E codeDep \in CodeDepChoices :
       options = [codeDep |-> codeDep, dropSchema |-> FALSE, dropTable |-> FALSE,
                  year |-> 2019, srid |-> 4326]
  /\ \E threads \in 0..MaxThreads, cpus \in 1..MaxCPU :
       numWorkers = NumWorkers(threads, cpus)
  /\ tree \in TreeChoices
  /\ \E n \in 0..MaxFiles : FreshRun(n)
  /\ db = EmptyDb
  /\ run = 1
  /\ first = [clean |-> FALSE, rows |-> EmptyDb.rows]

(* ----------------------------- the master ----------------------------- *)

\* A master that forgets the splice.
SpliceNone(fs) == fs

\* files.splice(0, 1)
Splice(fs) == IF fs = <<>> THEN fs ELSE Tail(fs)

\* worker.send({ file: files[0] }); files.splice(0, 1): the message, and the
\* archive (if there is one) counted as sent.
SendFile(w) ==
  LET file == IF files = <<>> THEN FileUndefined ELSE Head(files)
  IN  /\ inbox' = [inbox EXCEPT ![w] = Append(@, FileMsg(file))]
      /\ files' = Splice(files)
      /\ sent' = IF file = FileUndefined THEN sent
                   ELSE [sent EXCEPT ![file] = @ + 1]

\* resolve() and reject() settle the promise once.
Settle(p, outcome) == IF p = "pending" THEN outcome ELSE p

\* runImport up to its first await: the master connects and sends the DDL.
MasterStart ==
  /\ master = "start"
  /\ master' = "awaitDDL"
  /\ ddl' = "running"
  /\ UNCHANGED << options, config, call, depFeatures, flatbushIndex,
                  numWorkers, tree, files, workers, promise, pc, cur, todo,
                  inbox, outbox, db, sent, failed, refused, finished, insLog, run, first,
                  decoded >>

\* The store executes the DDL, one statement of several commands.
DDLDone ==
  /\ ddl = "running"
  /\ ddl' = "done"
  /\ db' = ExecSql(db, generateSql(config, options.dropSchema, options.dropTable))
  /\ UNCHANGED << options, config, call, depFeatures, flatbushIndex,
                  numWorkers, tree, master, files, workers, promise, pc, cur,
                  todo, inbox, outbox, sent, failed, refused, finished, insLog, run, first,
                  decoded >>

\* The store refuses the DDL (or cannot be reached): nothing is changed.
DDLFail ==
  /\ ddl = "running"
  /\ ddl' = "failed"
  /\ UNCHANGED << options, config, call, depFeatures, flatbushIndex,
                  numWorkers, tree, master, files, workers, promise, pc, cur,
                  todo, inbox, outbox, db, sent, failed, refused, finished, insLog, run,
                  first, decoded >>

\* A master that does not await generateTable.
AwaitSkipped(d) == d \in {"running", "done", "failed"}

\* await db.generateTable(...): the master goes on once the DDL is done.
AwaitOver(d) == d = "done"

\* After the await the master forks numWorkers workers and listens.
MasterFork ==
  /\ master = "awaitDDL"
  /\ AwaitOver(ddl)
  /\ master' = "serving"
  /\ pc' = [w \in Pids |-> IF w <= numWorkers THEN "forked" ELSE pc[w]]
  /\ UNCHANGED << options, config, call, depFeatures, flatbushIndex,
                  numWorkers, tree, ddl, files, workers, promise, cur, todo,
                  inbox, outbox, db, sent, failed, refused, finished, insLog, run, first,
                  decoded >>

\* generateTable rethrows the error of the DDL: the async executor ends
\* there, and neither resolve nor reject is called.
MasterThrow ==
  /\ master = "awaitDDL"
  /\ ddl = "failed"
  /\ master' = "failed"
  /\ UNCHANGED << options, config, call, depFeatures, flatbushIndex,
                  numWorkers, tree, ddl, files, workers, promise, pc, cur, todo,
                  inbox, outbox, db, sent, failed, refused, finished, insLog, run, first,
                  decoded >>

\* cluster.on("online"): the worker is recorded and sent files[0].
Online(w) ==
  /\ master = "serving"
  /\ pc[w] = "forked"
  /\ pc' = [pc EXCEPT ![w] = "idle"]
  /\ workers' = workers \cup {w}
  /\ SendFile(w)
  /\ UNCHANGED << options, config, call, depFeatures, flatbushIndex,
                  numWorkers, tree, master, ddl, promise, cur, todo, outbox, db,
                  failed, refused, finished, insLog, run, first, decoded >>

\* worker.on("message"): the next archive if one is left, exit otherwise.
OnMessage(w) ==
  /\ outbox[w] # <<>>
  /\ outbox' = [outbox EXCEPT ![w] = Tail(@)]
  /\ IF files # <<>>
     THEN SendFile(w)
     ELSE /\ inbox' = [inbox EXCEPT ![w] = Append(@, ExitMsg)]
          /\ UNCHANGED << files, sent >>
  /\ UNCHANGED << options, config, call, depFeatures, flatbushIndex,
                  numWorkers, tree, master, ddl, workers, promise, pc, cur, todo,
                  db, failed, refused, finished, insLog, run, first, decoded >>

\* A master that resolves at the first exit.
FirstExit(ws) == TRUE

\* workers.length == 0
NoWorkerLeft(ws) == ws = {}

\* worker.on("exit"): the worker is forgotten; the promise resolves when no
\* recorded worker is left.
OnExit(w) ==
  /\ pc[w] = "exited"
  /\ pc' = [pc EXCEPT ![w] = "gone"]
  /\ workers' = workers \ {w}
  /\ promise' = IF NoWorkerLeft(workers') THEN Settle(promise, "resolved") ELSE promise
  /\ UNCHANGED << options, config, call, depFeatures, flatbushIndex,
                  numWorkers, tree, master, ddl, files, cur, todo, inbox, outbox,
                  db, sent, failed, refused, finished, insLog, run, first, decoded >>

\* worker.on("error"): the promise is rejected.
OnError(w) ==
  /\ pc[w] \in {"idle", "insert"}
  /\ promise = "pending"
  /\ promise' = Settle(promise, "rejected")
  /\ UNCHANGED << options, config, call, depFeatures, flatbushIndex,
                  numWorkers, tree, master, ddl, files, workers, pc, cur, todo,
                  inbox, outbox, db, sent, failed, refused, finished, insLog, run, first,
                  decoded >>

(* ----------------------------- the workers ---------------------------- *)

\* A handler that also sends finish from its catch block.
HandlerEndAlsoInCatch(file, threw) ==
  IF threw THEN <<FinishMsg(file), FinishMsg(file)>> ELSE <<FinishMsg(file)>>

\* A handler whose finish message is the last statement of the try block.
HandlerEndInTry(file, threw) == IF threw THEN <<>> ELSE <<FinishMsg(file)>>

\* What the handler sends when it ends: the finish message of line 159,
\* after the try and its catch, whether or not the archive threw.
HandlerEnd(file, threw) == <<FinishMsg(file)>>

\* The end of the handler of one message: the catch block when something
\* threw, then the finish message.
Finish(w, file, threw) ==
  /\ pc' = [pc EXCEPT ![w] = "idle"]
  /\ todo' = [todo EXCEPT ![w] = <<>>]
  /\ outbox' = [outbox EXCEPT ![w] = @ \o HandlerEnd(file, threw)]
  /\ failed' = IF threw /\ file # FileUndefined THEN failed \cup {file} ELSE failed
  /\ finished' = IF file # FileUndefined THEN finished \cup {file} ELSE finished

\* pushGeojsonToPostgis at the tables that are left: it returns when none
\* is, pgp.helpers.insert throws when the next table has no feature with a
\* geometry, and it awaits the insert of the next table otherwise.
PushNext(w, file, rest) ==
  IF rest = <<>> THEN Finish(w, file, FALSE)
  ELSE IF DataFeatures(ConfOfTable(config, Head(rest).table), Head(rest).features,
                       options.srid) = <<>>
  THEN Finish(w, file, TRUE)
  ELSE /\ pc' = [pc EXCEPT ![w] = "insert"]
       /\ todo' = [todo EXCEPT ![w] = rest]
       /\ UNCHANGED << outbox, failed, finished >>

\* The handler of a file message from line 97 to its first await on the
\* store.  toGeojson.fromCompressed throws when there is no file or the
\* archive cannot be read.  Otherwise the dep is resolved, the constants are
\* read, the data prepared and the sink entered; whatever throws ends the
\* handler.
HandleFile(w, file) ==
  IF file = FileUndefined \/ ~SheetOf(file, tree[file]).readable
  THEN Finish(w, file, TRUE)
  ELSE \E data \in {SheetOf(file, tree[file])} :
       \E dep \in {ResolveDep(options.codeDep, data.basename)},
          commune_id \in {FirstIDU(data, "COMMUNE_id")},
          section_id \in {FirstIDU(data, "SECTION_id")} :
       \E consts \in {[commune_id |-> commune_id, section_id |-> section_id]} :
         IF \/ dep = Throw \/ commune_id = Throw \/ section_id = Throw
            \/ PrepareThrows(config, data)
         THEN Finish(w, file, TRUE)
         ELSE \E preparedData \in {prepareData(config, data, consts, dep,
                                               Num(options.year), options.srid)} :
                PushNext(w, file, preparedData)

\* The module state of worker w after the handler of a file message: the
\* spatial branch is entered when the archive was decoded and no --dep given.
IndexAfter(w, file) ==
  LET ix == [depFeatures |-> depFeatures[w], flatbushIndex |-> flatbushIndex[w]]
  IN  IF file = FileUndefined THEN ix
      ELSE IF ~SheetOf(file, tree[file]).readable THEN ix
      ELSE IF options.codeDep = CodeFromFile \/ ~Falsy(options.codeDep) THEN ix
      ELSE BuildIndex(ix)

\* process.on("message"): exit ends the process, a file is handled.
Receive(w) ==
  /\ pc[w] = "idle"
  /\ inbox[w] # <<>>
  /\ inbox' = [inbox EXCEPT ![w] = Tail(@)]
  /\ LET message == Head(inbox[w])
     IN  IF message.exit
         THEN /\ pc' = [pc EXCEPT ![w] = "exited"]
              /\ UNCHANGED << cur, todo, outbox, failed, finished, decoded,
                              depFeatures, flatbushIndex >>
         ELSE /\ cur' = [cur EXCEPT ![w] = message.file]
              /\ depFeatures' =
                   [depFeatures EXCEPT ![w] = IndexAfter(w, message.file).depFeatures]
              /\ flatbushIndex' =
                   [flatbushIndex EXCEPT ![w] = IndexAfter(w, message.file).flatbushIndex]
              /\ decoded' = IF message.file = FileUndefined THEN decoded
                            ELSE decoded \cup {message.file}
              /\ HandleFile(w, message.file)
  /\ UNCHANGED << options, config, call, numWorkers, tree, master, ddl, files, workers, promise,
                  db, sent, refused, insLog, run, first >>

\* client.none(insert) of the first table left settles: the store has
\* executed the insert, or failed it (the error is logged, the loop goes on).
Inserted(w) ==
  /\ pc[w] = "insert"
  /\ \E conf \in {ConfOfTable(config, Head(todo[w]).table)} :
     \E props \in {DataFeatures(conf, Head(todo[w]).features, options.srid)} :
     \E res \in {ExecInsert(db, conf, props)} :
         /\ db' = IF res.ok THEN res.db ELSE db
         /\ refused' = IF res.ok THEN refused ELSE refused \cup {cur[w]}
         /\ insLog' = [insLog EXCEPT ![cur[w]] = Append(@, conf.table)]
  /\ PushNext(w, cur[w], Tail(todo[w]))
  /\ UNCHANGED << options, config, call, depFeatures, flatbushIndex,
                  numWorkers, tree, master, ddl, files, workers, promise,
                  cur, inbox, sent, run, first, decoded >>

(* --------------------------- the specification ------------------------ *)

Next ==
  \/ MasterStart
  \/ DDLDone
  \/ DDLFail
  \/ MasterFork
  \/ MasterThrow
  \/ \E w \in Pids : Online(w)
  \/ \E w \in Pids : OnMessage(w)
  \/ \E w \in Pids : OnExit(w)
  \/ \E w \in Pids : OnError(w)
  \/ \E w \in Pids : Receive(w)
  \/ \E w \in Pids : Inserted(w)

Spec == Init /\ [][Next]_vars

\* The master process is over: the DDL threw, or every forked worker exited.
ProcessOver ==
  \/ master = "failed"
  \/ master = "serving" /\ \A w \in Pids : pc[w] \in {"none", "gone"}

\* The command is run again over the same tree with the same options: a new
\* master process on the store the first run left.
Rerun ==
  /\ run = 1
  /\ ProcessOver
  /\ run' = 2
  /\ first' = [clean |-> promise = "resolved" /\ failed = {} /\ refused = {},
               rows |-> db.rows]
  /\ master' = "start"
  /\ ddl' = "none"
  /\ files' = [i \in 1..(Len(files) + Cardinality({a \in Archives : sent[a] > 0})) |-> i]
  /\ workers' = {}
  /\ promise' = "pending"
  /\ pc' = [w \in Pids |-> "none"]
  /\ cur' = [w \in Pids |-> FileUndefined]
  /\ todo' = [w \in Pids |-> <<>>]
  /\ inbox' = [w \in Pids |-> <<>>]
  /\ outbox' = [w \in Pids |-> <<>>]
  /\ sent' = [a \in Archives |-> 0]
  /\ failed' = {}
  /\ refused' = {}
  /\ finished' = {}
  /\ insLog' = [a \in Archives |-> <<>>]
  /\ decoded' = {}
  /\ depFeatures' = [w \in Pids |-> "undefined"]
  /\ flatbushIndex' = [w \in Pids |-> "undefined"]
  /\ UNCHANGED << options, config, call, numWorkers, tree, db >>

\* A second run: one worker, any drop options.
InitRerun ==
  /\ config = BatiConfig
  /\ call = NoCall
  /\ \E codeDep \in CodeDepChoices, dropSchema \in BOOLEAN, dropTable \in BOOLEAN :
       options = [codeDep |-> codeDep, dropSchema |-> dropSchema,
                  dropTable |-> dropTable, year |-> 2019, srid |-> 4326]
  /\ numWorkers = 1
  /\ tree \in TreeChoices
  /\ \E n \in 0..MaxFiles : FreshRun(n)
  /\ db = EmptyDb
  /\ run = 1
  /\ first = [clean |-> FALSE, rows |-> EmptyDb.rows]

NextRerun == Next \/ Rerun

SpecRerun == InitRerun /\ [][NextRerun]_vars

\* run (index.js) hands the config it read to runImport as it is: a run with
\* one worker, --dep fromFile, any config of ConfigChoices and any tree of
\* TreeChoicesInputs.
InitInputs ==
  /\ config \in ConfigChoices
  /\ call = NoCall
  /\ options = [codeDep |-> CodeFromFile, dropSchema |-> FALSE, dropTable |-> FALSE,
                year |-> 2019, srid |-> 4326]
  /\ numWorkers = 1
  /\ tree \in TreeChoicesInputs
  /\ \E n \in 0..MaxFiles : FreshRun(n)
  /\ db = EmptyDb
  /\ run = 1
  /\ first = [clean |-> FALSE, rows |-> EmptyDb.rows]

SpecInputs == InitInputs /\ [][Next]_vars

\* A run whose options keep the worker count asked for (0: none) and the
\* CPU count of the host, with --dep fromFile, over a tree of TreeChoicesThreads.
InitThreads ==
  /\ config = BatiConfig
  /\ call = NoCall
  /\ \E threads \in 0..MaxThreads, cpus \in 1..MaxCPU :
       /\ options = [codeDep |-> CodeFromFile, dropSchema |-> FALSE,
                     dropTable |-> FALSE, year |-> 2019, srid |-> 4326,
                     threads |-> threads, osCPU |-> cpus]
       /\ numWorkers = NumWorkers(threads, cpus)
  /\ tree \in TreeChoicesThreads
  /\ \E n \in 0..MaxFiles : FreshRun(n)
  /\ db = EmptyDb
  /\ run = 1
  /\ first = [clean |-> FALSE, rows |-> EmptyDb.rows]

SpecThreads == InitThreads /\ [][Next]_vars

\* A run whose DDL succeeds and whose workers raise no 'error' event.
NextFair ==
  \/ MasterStart
  \/ DDLDone
  \/ MasterFork
  \/ \E w \in Pids : Online(w)
  \/ \E w \in Pids : OnMessage(w)
  \/ \E w \in Pids : OnExit(w)
  \/ \E w \in Pids : Receive(w)
  \/ \E w \in Pids : Inserted(w)

\* The event loops of the master and of the workers run the handler of an
\* event that is waiting, and the store answers a statement it was sent: as
\* long as some step of the run can be taken, one is.
Fairness == WF_vars(NextFair)

SpecFair == InitThreads /\ [][NextFair]_vars /\ Fairness

(* ----------------------- functions on their own ----------------------- *)

\* The strings of at most MaxLen characters over an alphabet.
Strings(alphabet) == UNION { [1..k -> alphabet] : k \in 0..MaxLen }

\* Basenames edigeo-<dep><rest> and edigea-<dep><rest>.
Basenames ==
  LET depChars == {"0", "2", "3", "9", "A", "B"}
      rests == { <<>>, <<"0", "0", "3", "3">>, <<"-", "0", "0", "3", "3">> }
  IN  { <<"e", "d", "i", "g", "e", last, "-", c1, c2>> \o rest :
          last \in {"o", "a"}, c1 \in depChars, c2 \in depChars, rest \in rests }

\* The years a run is given: a number, or a YYYY-MM date.
Years ==
  { Num(2019), Num(2025),
    Str(<<"2", "0", "1", "9", "-", "0", "1">>), Str(<<"2", "0", "2", "5", "-", "0", "4">>) }

ToCall(f, in) == [f |-> f, in |-> in, out |-> Undefined, done |-> FALSE]

\* One function and one input for it; the run itself has no archive.
InitFn ==
  /\ \/ \E b \in Basenames : call = ToCall("fromFile", b)
     \/ \E found \in FoundChoices : call = ToCall("findDep", found)
     \/ \E y \in Years, val \in {Undefined, Null, Str(<<"x">>)} :
          call = ToCall("addMillesime", [year |-> y, val |-> val])
     \/ \E val \in {Undefined, Null} \cup
                   { Str(c) : c \in Strings({"0", "2", "4", "a", "-", " "}) } :
          call = ToCall("toInt", val)
     \/ \E val \in {Undefined, Null} \cup
                   { Str(c) : c \in Strings({"0", "2", "5", ".", ",", " "}) } :
          call = ToCall("toFloat", val)
  /\ config = BatiConfig
  /\ options = [codeDep |-> CodeFromFile, dropSchema |-> FALSE, dropTable |-> FALSE,
                year |-> 2019, srid |-> 4326]
  /\ numWorkers = 1
  /\ tree = [a \in Archives |-> "none"]
  /\ FreshRun(0)
  /\ db = EmptyDb
  /\ run = 1
  /\ first = [clean |-> FALSE, rows |-> EmptyDb.rows]

\* The call returns out.
Return(out) ==
  /\ ~call.done
  /\ call' = [call EXCEPT !.out = out, !.done = TRUE]
  /\ UNCHANGED << options, config, depFeatures, flatbushIndex, numWorkers, tree, master,
                  ddl, files, workers, promise, pc, cur, todo, inbox, outbox, db, sent,
                  failed, refused, finished, insLog, run, first, decoded >>

\* Lines 110-125 of the worker handler with --dep fromFile.
ApplyFromFile ==
  /\ call.f = "fromFile"
  /\ Return(ResolveDep(CodeFromFile, call.in))

\* getDep(data.geojsons.SECTION_id, flatbushIndex, depFeatures)
ApplyFindDep ==
  /\ call.f = "findDep"
  /\ Return(findDep(call.in))

\* functions(dep, year).addMillesime(val), year as runImport is given it.
ApplyAddMillesime ==
  /\ call.f = "addMillesime"
  /\ Return(functions(Str(<<"3", "8">>), call.in.year, "addMillesime", call.in.val))

ApplyToInt ==
  /\ call.f = "toInt"
  /\ Return(functions(Str(<<"3", "8">>), Num(2019), "toInt", call.in))

ApplyToFloat ==
  /\ call.f = "toFloat"
  /\ Return(functions(Str(<<"3", "8">>), Num(2019), "toFloat", call.in))

NextFn ==
  \/ ApplyFromFile
  \/ ApplyFindDep
  \/ ApplyAddMillesime
  \/ ApplyToInt
  \/ ApplyToFloat

SpecFn == InitFn /\ [][NextFn]_vars

\* The master process receives a stop signal.  runImport registers no
\* handler for it, so the process ends at once; a worker whose channel to
\* the master closes ends too (cluster's child exits on 'disconnect'),
\* whatever it was doing.  An insert the store has not answered is taken as
\* not executed.
Stop ==
  /\ master \in {"awaitDDL", "serving"}
  /\ master' = "killed"
  /\ pc' = [w \in Pids |-> IF pc[w] = "none" THEN "none" ELSE "gone"]
  /\ inbox' = [w \in Pids |-> <<>>]
  /\ outbox' = [w \in Pids |-> <<>>]
  /\ UNCHANGED << options, config, call, depFeatures, flatbushIndex, numWorkers, tree,
                  ddl, files, workers, promise, cur, todo, db, sent, failed, refused,
                  finished, insLog, run, first, decoded >>

NextStop == Next \/ Stop

\* A run that a stop signal may end.
SpecStop == Init /\ [][NextStop]_vars

(* ------------------------------ the claims ---------------------------- *)

\* Worker w holds archive a: the message is on its way to w, or w is at it.
Holds(w, a) ==
  \/ \E i \in 1..Len(inbox[w]) : inbox[w][i] = FileMsg(a)
  \/ pc[w] = "insert" /\ cur[w] = a

\* What worker w has in flight: the messages it has not received, the one it
\* is handling, and the finish messages the master has not handled.
InFlight(w) ==
  Len(inbox[w]) + (IF pc[w] = "insert" THEN 1 ELSE 0)
  + Len(outbox[w])

\* C1: the master partitions the archive list.  No archive is both pending
\* and sent, none is sent more than once (to any worker), and every step
\* keeps, for each archive, the number of times it is pending plus the number
\* of times it was sent: an archive leaves the list in the step that sends it.
C1_Partition ==
  /\ [](\A a \in Archives : Count(files, a) + sent[a] <= 1)
  /\ [][\A a \in Archives :
          Count(files', a) + sent'[a] = Count(files, a) + sent[a]]_vars

\* C1 witness: two archives have been sent, to two different workers.
C1_Witness ==
  \E w1, w2 \in Pids : w1 # w2 /\ Holds(w1, 1) /\ Holds(w2, 2) /\ files = <<>>

\* C2: a worker never has more than one message in flight: between the
\* sending of an archive to it and the handling of its finish message the
\* master sends it nothing, neither an archive nor exit.
C2_OneInFlight == \A w \in Pids : InFlight(w) <= 1

\* C2 witness: the only worker has finished archive 1 and been sent archive 2.
C2_Witness ==
  numWorkers = 1 /\ 1 \in finished /\ inbox[1] = <<FileMsg(2)>> /\ outbox[1] = <<>>

\* C3: in the step in which the handling of an archive throws, its worker
\* sends the finish message of the archive and is idle again, no other
\* worker and no message to another worker is touched, and no row leaves the
\* store; and the master answers the finish message of a failed archive with
\* the next pending archive when there is one.
C3_FailureIsolated ==
  [][/\ \A a \in Archives :
          (a \notin failed /\ a \in failed')
          => \E w \in Pids :
               /\ outbox'[w] = Append(outbox[w], FinishMsg(a))
               /\ pc'[w] = "idle"
               /\ \A v \in Pids \ {w} :
                    pc'[v] = pc[v] /\ inbox'[v] = inbox[v] /\ outbox'[v] = outbox[v]
               /\ \A t \in Tables : db.rows[t] \subseteq db'.rows[t]
     /\ \A w \in Pids :
          ( /\ outbox[w] # <<>>
            /\ outbox'[w] = Tail(outbox[w])
            /\ Head(outbox[w]).file \in failed
            /\ files # <<>> )
          => /\ inbox'[w] = Append(inbox[w], FileMsg(Head(files)))
             /\ \A v \in Pids \ {w} : pc'[v] = pc[v] /\ inbox'[v] = inbox[v]
    ]_vars

\* C3 witness: the sink threw at the building of archive 1 after it had
\* inserted its commune, and the worker, the only one, then loaded archive
\* 2, whose rows are in the store.
C3_Witness ==
  /\ numWorkers = 1
  /\ tree[1] = "building"
  /\ 1 \in failed
  /\ 2 \in finished \ (failed \cup refused)
  /\ db.rows["edi_batiment"] # {}

\* C4 (the claim as stated): the promise resolves only when no archive failed.
C4_FailureReported == promise = "resolved" => failed = {}

\* C5 (the claim as stated): a foreign key is in place only once every
\* archive of the run has been handled.
C5_FkAfterLoads ==
  db.fks # {} =>
    /\ files = <<>>
    /\ \A a \in Archives : sent[a] > 0 => a \in finished

\* C6: a worker is forked, and an archive sent, only when the DDL is done.
C6_DDLFirst ==
  ( \/ \E w \in Pids : pc[w] # "none"
    \/ \E a \in Archives : sent[a] > 0 )
  => ddl = "done" /\ Tables \subseteq db.tables

\* C6 witness: the DDL is done and a worker holds an archive.
C6_Witness == ddl = "done" /\ \E w \in Pids : Holds(w, 1)

\* The place of a table in the config.
ConfigIndex(table) == CHOOSE i \in 1..Len(config) : config[i].table = table

\* C7: the inserts of one archive are executed in the order of the config,
\* and the insert of a table with a foreign key comes after the insert of
\* the table it references.
C7_ConfigOrder ==
  \A a \in Archives :
    /\ \A i, j \in 1..Len(insLog[a]) :
         i < j => ConfigIndex(insLog[a][i]) < ConfigIndex(insLog[a][j])
    /\ \A j \in 1..Len(insLog[a]) :
         LET conf == ConfOfTable(config, insLog[a][j])
         IN  conf.fk # {} => \E i \in 1..(j - 1) : insLog[a][i] = conf.ref

\* C7 witness: archive 2, which the decoder returns with its buildings
\* before its commune, has had both its tables inserted.
C7_Witness ==
  /\ SheetOf(2, tree[2]).geojsons[1].kind = "BATIMENT_id"
  /\ insLog[2] = <<"edi_commune", "edi_batiment">>

\* C8 (the claim as stated): after a first run without any error, a second
\* run with dropSchema and dropTable false leaves every table as it was.
C8_RerunInsertsNothing ==
  (run = 2 /\ first.clean /\ ~options.dropSchema /\ ~options.dropTable)
  => db.rows = first.rows

\* C9 (the claim as stated): no row of a table configured with hashGeom has
\* a NULL geomhash.
C9_GeomhashWritten ==
  \A i \in 1..Len(config) :
    config[i].hashGeom =>
      \A r \in db.rows[config[i].table] : r["geomhash"] # Null

\* C10 (the claim as stated): a second run over the tree of a first run
\* without any error decompresses no archive.
C10_UnchangedSkipped == (run = 2 /\ first.clean) => decoded = {}

\* C11 (the claim as stated): once the master has been stopped no archive is
\* sent any more, and the master is over only when every archive that was
\* sent to a worker has been finished by it.
C11_StopDrains ==
  /\ [](master = "killed" => \A a \in Archives : sent[a] > 0 => a \in finished)
  /\ [][master = "killed" => sent' = sent]_vars

\* Worker w has been through the spatial branch: the archive it last took
\* was decoded and no --dep was given.
SpatialDone(w) ==
  /\ cur[w] # FileUndefined
  /\ SheetOf(cur[w], tree[cur[w]]).readable
  /\ options.codeDep # CodeFromFile
  /\ Falsy(options.codeDep)

\* C12 (the claim as stated): a worker process that has been through a
\* spatial resolution holds the boundary features and the finished index,
\* the index is never seen created but not finished, and once built neither
\* is assigned again.
C12_IndexBuiltOnce ==
  /\ [](\A w \in Pids :
          /\ flatbushIndex[w] \in {"undefined", "finished"}
          /\ SpatialDone(w) =>
               depFeatures[w] = "loaded" /\ flatbushIndex[w] = "finished")
  /\ [][\A w \in Pids :
          depFeatures[w] = "loaded" =>
            /\ depFeatures'[w] = depFeatures[w]
            /\ flatbushIndex'[w] = flatbushIndex[w]]_vars

\* The config names a coercion that is not a key of the functions table.
UnknownCoercion(conf) ==
  \E i \in 1..Len(conf) : \E j \in 1..Len(conf[i].fields) :
    \E k \in 1..Len(conf[i].fields[j].functions) :
      conf[i].fields[j].functions[k] \notin KnownFunctions

\* C13 (the claim as stated): under a config that names an unknown coercion
\* no archive is sent to a worker and none is decoded.
C13_UnknownCoercionRejected ==
  UnknownCoercion(config) =>
    /\ decoded = {}
    /\ \A a \in Archives : sent[a] = 0

\* C14 (the claim as stated): the handling of an archive without VEC member
\* does not throw, and inserts nothing.
C14_NoVecNotFatal ==
  \A a \in Archives :
    (tree[a] = "novec" /\ a \in finished) => (a \notin failed /\ insLog[a] = <<>>)

\* C15: with --dep fromFile, the dep of a basename edigeo-<dep>... is the
\* string of the two characters that follow "edigeo-", letters included.
C15_FromFileDep ==
  ( /\ call.f = "fromFile"
    /\ call.done
    /\ SubSeq(call.in, 1, 7) = <<"e", "d", "i", "g", "e", "o", "-">> )
  => call.out = Str(SubSeq(call.in, 8, 9))

\* C15 witness: the dep of edigeo-2A0033 has been resolved to "2A".
C15_Witness ==
  /\ call.f = "fromFile"
  /\ call.done
  /\ call.in = <<"e", "d", "i", "g", "e", "o", "-", "2", "A", "0", "0", "3", "3">>
  /\ call.out = Str(<<"2", "A">>)

\* C16 (the claim as stated): in spatial mode an archive without defect, which
\* no boundary intersects, is not a failed archive and its commune is in the
\* store under the department 00.
C16_NoDepIsZeroZero ==
  \A a \in Archives :
    ( /\ options.codeDep # CodeFromFile
      /\ Falsy(options.codeDep)
      /\ tree[a] = "none"
      /\ a \in finished )
    => /\ a \notin failed
       /\ \E r \in db.rows["edi_commune"] :
            r["commune_id"] = Str(<<"0", "0", "0", "0", "3">>)

\* C17 (the claim as stated): when several departments intersect the sheet,
\* findDep returns one of largest area, and among those of largest area the
\* one of lowest code.
C17_LargestThenLowest ==
  (call.f = "findDep" /\ call.done /\ Len(Intersecting(call.in)) > 1)
  => \E i \in 1..Len(call.in) :
       /\ call.out = DepCode(call.in[i].code)
       /\ \A j \in 1..Len(call.in) :
            \/ call.in[j].area < call.in[i].area
            \/ call.in[j].area = call.in[i].area /\ call.in[i].code <= call.in[j].code

\* C18 (the claim as stated): for a run given a YYYY-MM date, addMillesime
\* returns the number YYYY whatever the value of the field.
C18_MillesimeIsYear ==
  (call.f = "addMillesime" /\ call.done /\ call.in.year.t = "string")
  => call.out = Num(Decimal(SubSeq(call.in.year.v, 1, 4), 0))

\* C19 (the claim as stated): toInt of a non-empty string of digits is its
\* value in base ten, and toInt of the empty string is null.
C19_ToIntOfDigits ==
  (call.f = "toInt" /\ call.done /\ call.in.t = "string")
  => /\ (call.in.v # <<>> /\ \A i \in 1..Len(call.in.v) : IsDigit(call.in.v[i]))
          => call.out = Num(Decimal(call.in.v, 0))
     /\ call.in.v = <<>> => call.out = Null

\* The first decimal number of a string: its first run of digits with, when
\* a point and digits follow, its fractional part; null when it has no digit.
RECURSIVE FirstNumber(_)
FirstNumber(chars) ==
  IF chars = <<>> THEN Null
  ELSE IF ~IsDigit(Head(chars)) THEN FirstNumber(Tail(chars))
  ELSE parseFloat(chars)

\* C20 (the claim as stated): toFloat of a string is its first decimal
\* number, and null only when it is empty or holds no digit.
C20_ToFloatFirstNumber ==
  (call.f = "toFloat" /\ call.done /\ call.in.t = "string")
  => call.out = FirstNumber(call.in.v)

\* The tables of the kinds a config declares.
ConfigTables(conf) == {conf[i].table : i \in 1..Len(conf)}

\* C21: the tables that exist are tables of the config, and all of them once
\* the DDL is done; only tables of the config hold rows or are the target of
\* an insert, whatever kinds the archives hold.
C21_OnlyConfigTables ==
  /\ db.tables \subseteq ConfigTables(config)
  /\ ddl = "done" => db.tables = ConfigTables(config)
  /\ \A t \in Tables : db.rows[t] # {} => t \in ConfigTables(config)
  /\ \A a \in Archives : \A i \in 1..Len(insLog[a]) :
       insLog[a][i] \in ConfigTables(config)

\* C21 witness: under the config of the communes alone, archive 1, which
\* holds a building and a section, has been loaded: its commune is in the
\* store and there is no table of buildings.
C21_Witness ==
  /\ config = CommuneConfig
  /\ 1 \in finished \ (failed \cup refused)
  /\ KindData(SheetOf(1, tree[1]), "BATIMENT_id") # Undefined
  /\ KindData(SheetOf(1, tree[1]), "SECTION_id") # Undefined
  /\ db.rows["edi_commune"] # {}
  /\ db.tables = {"edi_commune"}

\* The workers that have been forked.
Forked == {w \in Pids : pc[w] # "none"}

\* C22: no worker is forked before the master serves, and the master then
\* has forked as many workers as the smaller of the worker count asked for
\* and the CPU count, or as the CPU count when none was asked for.
C22_ForkCount ==
  IF master = "serving"
  THEN Cardinality(Forked) =
         IF options.threads = 0 THEN options.osCPU
         ELSE IF options.threads < options.osCPU THEN options.threads
         ELSE options.osCPU
  ELSE Forked = {}

\* C22 witness: two workers were asked for on a host with one CPU, and one
\* worker has been forked.
C22_Witness ==
  /\ options.threads = 2
  /\ options.osCPU = 1
  /\ master = "serving"
  /\ Cardinality(Forked) = 1

\* The archives of the input list: those still pending and those sent.
InputList == {a \in Archives : Count(files, a) + sent[a] > 0}

\* C23: when the promise is resolved no archive is pending, and every
\* archive of the input list has been sent to a worker whose handler has
\* ended for it, so that its finish message has been sent.
C23_ResolvedAfterAll ==
  promise = "resolved" =>
    /\ files = <<>>
    /\ \A a \in InputList : sent[a] = 1 /\ a \in finished
    /\ \A w \in Pids : ~(\E a \in Archives : Holds(w, a))

\* C23 witness: the promise is resolved after two workers have each handled
\* one of two archives.
C23_Witness ==
  /\ promise = "resolved"
  /\ finished = {1, 2}
  /\ \A w \in {1, 2} : pc[w] = "gone"
  /\ \E w1, w2 \in Pids : w1 # w2 /\ cur[w1] = 1 /\ cur[w2] = 2

\* C24 (the claim as stated): when the promise is resolved every forked
\* worker has exited.
C24_ResolvedAfterExits ==
  promise = "resolved" => \A w \in Forked : pc[w] = "gone"

\* The run is over: every archive of the list has been handled, every
\* forked worker has received exit and ended, and the promise is resolved.
RunOver ==
  /\ files = <<>>
  /\ \A a \in InputList : a \in finished
  /\ master = "serving"
  /\ \A w \in Forked : pc[w] = "gone"
  /\ promise = "resolved"

\* C25: a run whose DDL succeeds and whose workers raise no error is
\* eventually over, whatever the number of archives and the worker count.
C25_Terminates == <>RunOver

\* C25 witness: a run of two workers over a single archive is over; the
\* worker that was sent no archive has ended as well.
C25_Witness ==
  /\ RunOver
  /\ Cardinality(Forked) = 2
  /\ InputList = {1}

\* C26 (the claim as stated): when the DDL has failed and the master has
\* gone past its await, no worker is forked, no archive is handled and the
\* promise is rejected.
C26_DDLFailureRejects ==
  (ddl = "failed" /\ master = "failed")
  => /\ Forked = {}
     /\ decoded = {} /\ finished = {}
     /\ promise = "rejected"

\* The tables of the config that come after table t in config order.
TablesAfter(t) ==
  {config[j].table : j \in {i \in 1..Len(config) : i > ConfigIndex(t)}}

\* C27 (the claim as stated): once the handler of an archive has ended
\* without a throw of the transform, every configured table whose kind the
\* archive holds was inserted, also when the insert of a table before it
\* failed or when a table before it had no feature with a geometry.
C27_TablesIndependent ==
  \A a \in Archives :
    ( /\ a \in finished
      /\ tree[a] \in {"commune", "communegeom"}
      /\ ~UnknownCoercion(config) )
    => \A t \in TablesAfter("edi_commune") :
         \E i \in 1..Len(insLog[a]) : insLog[a][i] = t

\* C28: every row of the store has a geometry with a type; and once an
\* archive with mixed buildings has been loaded under a config that has the
\* buildings, its building with a geometry is in the store, and is the only
\* one of its buildings there.
C28_RowsHaveGeometry ==
  /\ \A t \in Tables : \A r \in db.rows[t] :
       r["geom"].of.t = "geometry" /\ r["geom"].of.type # ""
  /\ \A a \in Archives :
       ( /\ tree[a] = "mixed"
         /\ a \in finished
         /\ "edi_batiment" \in ConfigTables(config)
         /\ ~UnknownCoercion(config) )
       => /\ a \notin failed \cup refused
          /\ \E r \in db.rows["edi_batiment"] :
               r["object_id"] = Str(<<"3", "8", "B", Digit(a)>>)
          /\ \A r \in db.rows["edi_batiment"] :
               r["object_id"] \notin { Str(<<"3", "8", "N", Digit(a)>>),
                                       Str(<<"3", "8", "T", Digit(a)>>) }

\* C28 witness: archive 1, with mixed buildings, has been loaded under the
\* bati preset and the table of buildings holds one row.
C28_Witness ==
  /\ config = BatiConfig
  /\ tree[1] = "mixed"
  /\ 1 \in finished
  /\ insLog[1] = <<"edi_commune", "edi_batiment">>
  /\ Cardinality(db.rows["edi_batiment"]) = 1

=============================================================================
